---- MODULE Spec2Model ----
(***************************************************************************)
(* Oelo Lights light platform (custom_components/oelo_lights/light.py):    *)
(* the per-zone command resolution, the single-slot debounce buffer, the   *)
(* HTTP send and the reconciliation against coordinator polls, as a state  *)
(* machine over the asyncio event loop's steps.                            *)
(***************************************************************************)
EXTENDS Integers, Sequences, FiniteSets, TLC

(***************************************************************************)
(* Bounds of the model.                                                    *)
(***************************************************************************)
\* turn_on / turn_off service calls issued in one behaviour
MaxCalls == 2
\* coordinator refreshes delivered in one behaviour
MaxPolls == 1

\* the zones whose entities are modelled, of the controller's six
Zones == {1, 2}
CallIds == 1..MaxCalls

(***************************************************************************)
(* patterns.py: the catalog, an insertion-ordered dict name -> template.   *)
(* The templates are bare query texts: they hold no "?" and no scheme.     *)
(***************************************************************************)
pattern_commands == <<
    [name |-> "Valentines: My Heart Is Yours",
     template |-> "patternType=fade&num_zones=1&zones={zone}&num_colors=3&colors=255,10,228,255,255,255,255,0,0,&direction=R&speed=1&gap=0&other=0&pause=0"],
    [name |-> "Valentines: Cupids Twinkle",
     template |-> "patternType=twinkle&num_zones=1&zones={zone}&num_colors=2&colors=255,10,228,255,255,255,&direction=R&speed=1&gap=0&other=0&pause=0"],
    [name |-> "Valentines: Powerful Love",
     template |-> "patternType=stationary&num_zones=1&zones={zone}&num_colors=2&colors=180,10,255,255,0,0,&direction=R&speed=1&gap=0&other=0&pause=0"],
    [name |-> "Valentines: Adorations Smile",
     template |-> "patternType=stationary&num_zones=1&zones={zone}&num_colors=3&colors=255,10,228,255,0,76,255,143,238,&direction=R&speed=1&gap=0&other=0&pause=0"],
    [name |-> "Pride: March",
     template |-> "patternType=march&num_zones=1&zones={zone}&num_colors=18&colors=255,0,0,255,0,0,255,0,0,255,50,0,255,50,0,255,50,0,255,240,0,255,240,0,255,240,0,0,255,0,0,255,0,0,255,0,0,0,255,0,0,255,0,0,255,125,0,255,125,0,255,125,0,255,&direction=R&speed=1&gap=0&other=0&pause=0"],
    [name |-> "Pride: Split",
     template |-> "patternType=split&num_zones=1&zones={zone}&num_colors=6&colors=255,0,0,255,50,0,255,240,0,0,255,0,0,0,255,125,0,255,&direction=R&speed=1&gap=0&other=0&pause=0"],
    [name |-> "Christmas: Icicle Chase",
     template |-> "patternType=chase&num_zones=1&zones={zone}&num_colors=3&colors=255,255,255,0,183,245,0,73,245,&direction=R&speed=5&gap=0&other=0&pause=0"],
    [name |-> "Christmas: Icicle Stream",
     template |-> "patternType=river&num_zones=1&zones={zone}&num_colors=4&colors=255,255,255,0,204,255,0,70,255,0,70,255,&direction=R&speed=4&gap=0&other=0&pause=0"],
    [name |-> "Christmas: Icicle Shimmer",
     template |-> "patternType=twinkle&num_zones=1&zones={zone}&num_colors=4&colors=255,255,255,0,204,255,0,70,255,0,70,255,&direction=R&speed=4&gap=0&other=0&pause=0"],
    [name |-> "Christmas: Candy Cane Lane",
     template |-> "patternType=stationary&num_zones=1&zones={zone}&num_colors=6&colors=255,255,255,255,255,255,255,255,255,255,0,0,255,0,0,255,0,0,&direction=R&speed=4&gap=0&other=0&pause=0"],
    [name |-> "Christmas: Candy Cane Glimmer",
     template |-> "patternType=river&num_zones=1&zones={zone}&num_colors=4&colors=255,255,255,255,0,0,255,255,255,255,0,0,&direction=R&speed=20&gap=0&other=0&pause=0"],
    [name |-> "Christmas: Christmas Glow",
     template |-> "patternType=stationary&num_zones=1&zones={zone}&num_colors=6&colors=255,255,255,255,255,255,255,255,255,255,153,0,255,153,0,255,153,0,&direction=R&speed=2&gap=0&other=0&pause=0"],
    [name |-> "Christmas: The Grinch Stole Christmas",
     template |-> "patternType=twinkle&num_zones=1&zones={zone}&num_colors=8&colors=15,255,0,15,255,0,15,255,0,15,255,0,255,0,0,255,0,0,255,255,255,255,255,255,&direction=R&speed=2&gap=0&other=0&pause=0"],
    [name |-> "Christmas: Christmas at Oelo",
     template |-> "patternType=stationary&num_zones=1&zones={zone}&num_colors=7&colors=26,213,255,26,213,255,26,213,255,26,213,255,26,213,255,255,34,0,255,34,0,&direction=R&speed=2&gap=0&other=0&pause=0"],
    [name |-> "Christmas: Saturnalia Christmas",
     template |-> "patternType=stationary&num_zones=1&zones={zone}&num_colors=9&colors=255,255,255,255,255,255,255,255,255,0,255,47,0,255,47,0,255,47,255,0,0,255,0,0,255,0,0,&direction=R&speed=2&gap=0&other=0&pause=0"],
    [name |-> "Christmas: Dreaming of a White Christmas",
     template |-> "patternType=stationary&num_zones=1&zones={zone}&num_colors=5&colors=238,252,255,237,252,255,237,252,255,0,0,0,0,0,0,&direction=R&speed=10&gap=0&other=0&pause=0"],
    [name |-> "Christmas: Decorating the Christmas Tree",
     template |-> "patternType=stationary&num_zones=1&zones={zone}&num_colors=5&colors=0,219,11,0,219,11,0,219,11,255,153,0,255,255,255,&direction=R&speed=2&gap=0&other=0&pause=0"]
>>

EffectNames == {pattern_commands[i].name : i \in 1..Len(pattern_commands)}

\* pattern_commands[effect_name]
TemplateOf(effect_name) ==
    pattern_commands[CHOOSE i \in 1..Len(pattern_commands) :
                        pattern_commands[i].name = effect_name].template

(***************************************************************************)
(* Values.  Python's None is NoneStr for names, NoRgb for colors, NoUrl    *)
(* for command URLs and NoArg for an absent brightness argument.           *)
(***************************************************************************)
NoneStr == "None"
NoRgb == <<>>
NoArg == 0 - 1

\* A command URL "http://{ip}{path}?{query}".  params tells which keys the
\* query text holds, in their fixed order: "all" (the ten keys of a
\* setPattern command), "zones" (zones, num_zones only) or "none"; a key the
\* query does not hold has the value "", 0 or <<>>.
MakeUrl(path, params, ptype, zone, ncolors, colors, dir) ==
    [path |-> path, params |-> params, patternType |-> ptype, num_zones |-> 1,
     zones |-> zone, num_colors |-> ncolors, colors |-> colors,
     direction |-> dir, speed |-> 0, gap |-> 0, other |-> 0, pause |-> 0]

\* None, and the empty string ("if url_to_send:" treats both alike)
NoUrl ==
    [path |-> "", params |-> "none", patternType |-> "", num_zones |-> 0,
     zones |-> 0, num_colors |-> 0, colors |-> <<>>,
     direction |-> "", speed |-> 0, gap |-> 0, other |-> 0, pause |-> 0]

\* max(0, min(v, 255))
Clamp(v) == IF v < 0 THEN 0 ELSE IF v > 255 THEN 255 ELSE v

\* as RoundScale, but truncating
RoundScaleDown(c, b) == (c * b) \div 255

\* int(round(c * (b / 255.0))) for c >= 0, 0 <= b <= 255: the quotient is
\* never half way between two integers (2cb is even, 255(2k+1) is odd), so
\* round-half-even and round-half-up agree.
RoundScale(c, b) == (2 * c * b + 255) \div 510

\* tuple(max(0, min(int(round(c * brightness_factor)), 255)) for c in colors)
ScaleColors(colors, b) ==
    [i \in 1..Len(colors) |-> Clamp(RoundScale(colors[i], b))]

\* the f-string of a "custom"/"off" command built from url_params
BuildCommandUrl(ptype, zone, colors) ==
    MakeUrl("/setPattern", "all", ptype, zone, 1, colors, "F")

\* urllib.parse.urlparse(template): a text with no "?" is all path
ParseTemplate(template) ==
    MakeUrl(template, "none", "", 0, 0, <<>>, "")

\* parse_qs(urlparse(url).query).get("patternType", [""])[0]
QueryPatternType(url) == IF url.params = "all" THEN url.patternType ELSE ""

\* 'colors' in query_params and query_params['colors'][0]
HasColors(url) == url.params = "all" /\ url.colors # <<>>

\* OeloLight._get_base_effect_url
GetBaseEffectUrl(zone, effect_name) ==
    IF effect_name \notin EffectNames THEN NoUrl
    ELSE LET parsed == ParseTemplate(TemplateOf(effect_name))
         IN  [parsed EXCEPT
                !.params = IF parsed.params = "all" THEN "all" ELSE "zones",
                !.zones = zone,
                !.num_zones = 1,
                !.path = IF parsed.path # "" THEN parsed.path ELSE "/setPattern"]

\* OeloLight._extract_first_color_from_url
ExtractFirstColor(url) ==
    IF url = NoUrl THEN NoRgb
    ELSE IF HasColors(url) /\ Len(url.colors) >= 3
         THEN <<Clamp(url.colors[1]), Clamp(url.colors[2]), Clamp(url.colors[3])>>
         ELSE NoRgb

\* OeloLight._adjust_colors_in_url, brightness_factor = b / 255.0
AdjustColorsInUrl(url, b) ==
    IF url = NoUrl THEN NoUrl
    ELSE IF HasColors(url)
         THEN [url EXCEPT !.colors = ScaleColors(url.colors, Clamp(b))]
         ELSE url

\* the loop over pattern_commands.items() of async_turn_on: the first name
\* whose template's query holds the given patternType, else None
FirstEffectOfType(ptype) ==
    LET hits == {i \in 1..Len(pattern_commands) :
                   QueryPatternType(ParseTemplate(pattern_commands[i].template)) = ptype}
    IN  IF hits = {} THEN NoneStr
        ELSE pattern_commands[CHOOSE i \in hits : \A j \in hits : i <= j].name

(***************************************************************************)
(* async_turn_on, lines 262-392: the command resolution.  s is the zone's  *)
(* state, kw the keyword arguments (brightness NoArg, rgb NoRgb, effect    *)
(* NoneStr when absent).  proceed is FALSE where the code returns early.   *)
(***************************************************************************)
Resolution(proceed, url, base, brightness, rgb, effect) ==
    [proceed |-> proceed, url |-> url, base |-> base,
     brightness |-> brightness, rgb |-> rgb, effect |-> effect]

\* as BrightnessToSet, but the brightness asked for is ignored
BrightnessToSetStored(s, kw) == Clamp(s.brightness)

\* lines 275-284
BrightnessToSet(s, kw) ==
    Clamp(IF kw.brightness # NoArg THEN kw.brightness ELSE s.brightness)

\* as ResolveRgb, but the intended effect is kept
ResolveRgbKeepEffect(zone, s, kw) ==
    LET b == BrightnessToSet(s, kw)
        rgb_to_set == [i \in 1..3 |-> Clamp(kw.rgb[i])]
    IN  Resolution(TRUE,
                   BuildCommandUrl("custom", zone, ScaleColors(rgb_to_set, b)),
                   BuildCommandUrl("custom", zone, rgb_to_set),
                   b, rgb_to_set, s.effect)

\* lines 286-312: ATTR_RGB_COLOR in kwargs
ResolveRgb(zone, s, kw) ==
    LET b == BrightnessToSet(s, kw)
        rgb_to_set == [i \in 1..3 |-> Clamp(kw.rgb[i])]
    IN  Resolution(TRUE,
                   BuildCommandUrl("custom", zone, ScaleColors(rgb_to_set, b)),
                   BuildCommandUrl("custom", zone, rgb_to_set),
                   b, rgb_to_set, NoneStr)

\* lines 314-333: ATTR_EFFECT in kwargs
ResolveEffect(zone, s, kw) ==
    LET b == BrightnessToSet(s, kw)
        base == GetBaseEffectUrl(zone, kw.effect)
        extracted_rgb == ExtractFirstColor(base)
    IN  IF kw.effect \in EffectNames /\ base # NoUrl
        THEN Resolution(TRUE, AdjustColorsInUrl(base, b), base, b,
                        IF extracted_rgb # NoRgb THEN extracted_rgb ELSE s.rgb,
                        kw.effect)
        ELSE Resolution(FALSE, NoUrl, NoUrl, s.brightness, s.rgb, s.effect)

\* lines 335-392: the zone is off, or only a brightness is given
ResolveReplay(zone, s, kw) ==
    LET b == BrightnessToSet(s, kw)
        \* lines 338-346: the intended effect
        effBase == IF s.effect # NoneStr THEN GetBaseEffectUrl(zone, s.effect) ELSE NoUrl
        eff1 == IF s.effect # NoneStr /\ effBase = NoUrl THEN NoneStr ELSE s.effect
        rgb1 == IF effBase # NoUrl /\ ExtractFirstColor(effBase) # NoRgb
                THEN ExtractFirstColor(effBase) ELSE s.rgb
        \* lines 348-374: the last successful command
        useLsc == effBase = NoUrl /\ s.lsc # NoUrl
        base2 == IF useLsc THEN s.lsc ELSE effBase
        lsc_pattern_type == QueryPatternType(s.lsc)
        rgb2 == IF useLsc /\ ExtractFirstColor(s.lsc) # NoRgb
                THEN ExtractFirstColor(s.lsc) ELSE rgb1
        eff2 == IF ~useLsc THEN eff1
                ELSE IF lsc_pattern_type = "custom" THEN NoneStr
                ELSE IF lsc_pattern_type # "off" THEN FirstEffectOfType(lsc_pattern_type)
                ELSE eff1
    IN  IF base2 # NoUrl
        THEN Resolution(TRUE, AdjustColorsInUrl(base2, b), base2, b, rgb2, eff2)
        \* lines 378-392: solid white
        ELSE Resolution(TRUE,
                        BuildCommandUrl("custom", zone, ScaleColors(<<255, 255, 255>>, b)),
                        BuildCommandUrl("custom", zone, <<255, 255, 255>>),
                        b, <<255, 255, 255>>, NoneStr)

\* as ResolveTurnOn, but a zone that is unavailable and off is not refused
ResolveTurnOnUnguarded(zone, s, kw) ==
    IF kw.rgb # NoRgb THEN ResolveRgb(zone, s, kw)
    ELSE IF kw.effect # NoneStr THEN ResolveEffect(zone, s, kw)
    ELSE IF ~s.state \/ kw.brightness # NoArg THEN ResolveReplay(zone, s, kw)
    ELSE Resolution(TRUE, NoUrl, NoUrl, BrightnessToSet(s, kw), s.rgb, s.effect)

\* lines 262-392
ResolveTurnOn(zone, s, kw) ==
    IF ~s.available /\ ~s.state
    THEN Resolution(FALSE, NoUrl, NoUrl, s.brightness, s.rgb, s.effect)
    ELSE IF kw.rgb # NoRgb THEN ResolveRgb(zone, s, kw)
    ELSE IF kw.effect # NoneStr THEN ResolveEffect(zone, s, kw)
    ELSE IF ~s.state \/ kw.brightness # NoArg THEN ResolveReplay(zone, s, kw)
    ELSE Resolution(TRUE, NoUrl, NoUrl, BrightnessToSet(s, kw), s.rgb, s.effect)

\* as OffCommandUrl, but with the pattern type of a color command
OffCommandUrlCustom(zone) == BuildCommandUrl("custom", zone, <<0, 0, 0>>)

\* async_turn_off, lines 467-472
OffCommandUrl(zone) == BuildCommandUrl("off", zone, <<0, 0, 0>>)

(***************************************************************************)
(* Inputs of the model.                                                    *)
(***************************************************************************)
Args(brightness, rgb, effect) ==
    [brightness |-> brightness, rgb |-> rgb, effect |-> effect]
NoArgs == Args(NoArg, NoRgb, NoneStr)
\* the keyword arguments async_turn_on is called with
TurnOnArgs ==
    {NoArgs,
     Args(128, NoRgb, NoneStr),
     Args(255, NoRgb, NoneStr),
     Args(NoArg, NoRgb, "Christmas: Icicle Chase"),
     Args(NoArg, NoRgb, "Not In Catalog")}

\* the keyword arguments of the specification of the command resolution:
\* brightness absent, 0, in range, 255 or beyond it; a color absent, in range
\* or with channels out of range; an effect absent, of the catalog or not
ResolveBrightness == {NoArg, 0, 128, 255, 300}
ResolveRgbColors == {NoRgb, <<200, 100, 17>>, <<300, 0 - 5, 17>>}
ResolveArgs ==
    {Args(b, c, e) : b \in ResolveBrightness, c \in ResolveRgbColors,
                     e \in {NoneStr, "Christmas: Icicle Chase"}}
      \cup {Args(128, NoRgb, "Not In Catalog"),
            Args(NoArg, <<200, 100, 17>>, "Not In Catalog")}

\* the async_turn_on calls after which a previous run was shut down
RestoreArgs ==
    {Args(128, <<200, 100, 17>>, NoneStr),
     Args(NoArg, NoRgb, "Christmas: Icicle Chase")}

\* what one zone's entry of a getController response can be: no entry with
\* that "num", an entry without "pattern", or an entry with this pattern
PollEntries == {"absent", "nopattern", "off", "custom"}
\* the "colors" field of the entry with the pattern "custom"
CustomEntryColors == <<255, 0, 0>>
\* a coordinator refresh: failed (UpdateFailed), or the list it returned
PollResults(zs) ==
    {[ok |-> FALSE, entries |-> [z \in zs |-> "absent"]]}
      \cup [ok : {TRUE}, entries : [zs -> PollEntries]]

\* how one session.get of _send_request can end
SendOutcomes ==
    {"ack", "no_ack", "timeout", "http_error", "connection_error",
     "client_error", "exception"}

(***************************************************************************)
(* State.  The entities are those of the zones in DOMAIN zone.  The calls  *)
(* of a zone are numbered in the order they are issued; the future and the *)
(* debounce task a call creates carry its number.                          *)
(***************************************************************************)
VARIABLES
    zone,      \* zone -> the OeloLight entity's fields
    store,     \* zone -> stored_entity_data["zone_{n}_last_command"]
    calls,     \* zone -> its async_turn_on / async_turn_off coroutines
    future,    \* zone -> the futures its calls created
    task,      \* zone -> the _debounce_and_send tasks its calls created
    wire,      \* zone -> its _send_request invocations that have not ended
    hist,      \* zone -> what has been asked of it and sent for it so far
    ncalls,    \* service calls issued so far
    npolls     \* coordinator refreshes delivered so far

vars == <<zone, store, calls, future, task, wire, hist, ncalls, npolls>>

\* OeloLight.__init__ (removed: async_will_remove_from_hass has run)
InitZone ==
    [state |-> FALSE, brightness |-> 255, rgb |-> <<255, 255, 255>>,
     effect |-> NoneStr, lsc |-> NoUrl, available |-> TRUE,
     pending_url |-> NoUrl, pending_future |-> 0, debounce_task |-> 0,
     removed |-> FALSE]

\* nothing issued, nothing sent.  intent: the URL resolved by the call
\* issued last; nsent, lastSent, lastTask, lastResult: the number of
\* _send_request invocations, and the URL, task and result of the latest;
\* dim: every call so far was a turn-on with only a brightness, none given
\* twice, issued before anything was sent; onoff: "on" after a first call
\* that is a turn-on, "onoff" after a turn-off that follows it before
\* anything was sent, "other" after anything else
InitHist ==
    [intent |-> NoUrl, nsent |-> 0, lastSent |-> NoUrl, lastTask |-> 0,
     lastResult |-> "none", dim |-> TRUE, used |-> {}, onoff |-> "none"]

\* the entities of the zones zs, as async_setup_entry creates them
InitEntities(zs) ==
    /\ zone = [z \in zs |-> InitZone]
    /\ store = [z \in zs |-> NoUrl]
    /\ calls = [z \in zs |-> <<>>]
    /\ future = [z \in zs |-> <<>>]
    /\ task = [z \in zs |-> <<>>]
    /\ wire = [z \in zs |-> {}]
    /\ hist = [z \in zs |-> InitHist]
    /\ ncalls = 0
    /\ npolls = 0

\* one zone's entity, whichever zone it is
Init == \E z \in Zones : InitEntities({z})

CallsOf(z) == DOMAIN calls[z]

\* async_added_to_hass, lines 162-187, and the restored_last_command of
\* __init__: the fields of an entity that a previous run left on and
\* available after async_turn_on(kw) on a new entity.  The restored state
\* holds what the properties reported, the store what lines 400-403 saved.
RestoredZone(z, kw) ==
    LET r == ResolveTurnOn(z, InitZone, kw)
    IN  [InitZone EXCEPT !.state = TRUE, !.brightness = r.brightness,
                         !.rgb = r.rgb, !.effect = r.effect, !.lsc = r.base]

\* one zone's entity with the fields s
InitEntityWith(z, s) ==
    /\ zone = [x \in {z} |-> s]
    /\ store = [x \in {z} |-> s.lsc]
    /\ calls = [x \in {z} |-> <<>>]
    /\ future = [x \in {z} |-> <<>>]
    /\ task = [x \in {z} |-> <<>>]
    /\ wire = [x \in {z} |-> {}]
    /\ hist = [x \in {z} |-> InitHist]
    /\ ncalls = 0
    /\ npolls = 0

\* ... and the fields of an entity that the previous run left after one
\* more call, async_turn_on() with no arguments: the zone was on, so no
\* command was resolved and lines 404-406 reset the record and saved that
RestoredZoneAfterBare(z, kw) ==
    LET s == RestoredZone(z, kw)
        r == ResolveTurnOn(z, s, NoArgs)
    IN  [s EXCEPT !.state = TRUE, !.brightness = r.brightness,
                  !.rgb = r.rgb, !.effect = r.effect, !.lsc = r.base]

\* one zone's entity, new or restored
InitResolve ==
    \E z \in Zones :
        \E s \in {InitZone} \cup {RestoredZone(z, kw) : kw \in RestoreArgs}
                            \cup {RestoredZoneAfterBare(z, kw) : kw \in RestoreArgs} :
            InitEntityWith(z, s)

(***************************************************************************)
(* The entity's properties, lines 136-160.                                 *)
(***************************************************************************)
Available(s) == s.available
\* is_on: a bool as text, or None
IsOn(s) == IF Available(s) THEN (IF s.state THEN "True" ELSE "False") ELSE NoneStr

\* as Brightness, but the stored value whether available or not
BrightnessStored(s) == s.brightness

\* brightness: None is NoArg
Brightness(s) == IF Available(s) THEN s.brightness ELSE NoArg

\* rgb_color: None is NoRgb
RgbColor(s) == IF Available(s) THEN s.rgb ELSE NoRgb

\* as Effect, but the stored effect whether on or off
EffectStored(s) == IF ~Available(s) THEN NoneStr ELSE s.effect

\* effect
Effect(s) ==
    IF ~Available(s) THEN NoneStr
    ELSE IF IsOn(s) = "True" THEN s.effect ELSE NoneStr

(***************************************************************************)
(* The debouncer, lines 645-704.  ts and fs are the zone's tasks and       *)
(* futures, s its fields.                                                  *)
(***************************************************************************)
TaskLive(ts, t) == t # 0 /\ ts[t] \in {"sleeping", "sending"}

\* as CancelDebounceTask, but the previous task is left running
CancelDebounceTaskNot(ts, s) == ts

\* lines 649-651: self._debounce_task.cancel().  The CancelledError reaches
\* the task on the loop's next iteration, at its sleep or inside its
\* session.get, long before any timer started now can fire.
CancelDebounceTask(ts, s) ==
    IF TaskLive(ts, s.debounce_task)
    THEN [ts EXCEPT ![s.debounce_task] = "cancelled"]
    ELSE ts

\* the request of a task cancelled inside _send_request is abandoned
AbortSendOf(w, ts, s) ==
    {r \in w : CancelDebounceTask(ts, s)[r.task] # "cancelled"}

\* ... which the history records
HistAbort(h, w, ts, s) ==
    IF \E r \in w \ AbortSendOf(w, ts, s) : r.task = h.lastTask
    THEN [h EXCEPT !.lastResult = "aborted"]
    ELSE h

\* as CancelPendingFuture, but the previous future is left pending
CancelPendingFutureNot(fs, s) == fs

\* lines 653-655: self._pending_command_future.cancel()
CancelPendingFuture(fs, s) ==
    IF s.pending_future # 0 /\ fs[s.pending_future] = "pending"
    THEN [fs EXCEPT ![s.pending_future] = "cancelled"]
    ELSE fs

\* as BufferedSendRequest, but the command buffered before stays the one
\* to send
BufferedSendRequestKeepUrl(z, c, s, url, ts, fs, h) ==
    /\ hist' = [hist EXCEPT ![z] = HistAbort(h, wire[z], ts, s)]
    /\ task' = [task EXCEPT ![z] = [CancelDebounceTask(ts, s) EXCEPT ![c] = "sleeping"]]
    /\ wire' = [wire EXCEPT ![z] = AbortSendOf(wire[z], ts, s)]
    /\ future' = [future EXCEPT ![z] = [CancelPendingFuture(fs, s) EXCEPT ![c] = "pending"]]
    /\ zone' = [zone EXCEPT ![z] =
                  [s EXCEPT !.pending_future = c,
                            !.debounce_task = c]]

\* as BufferedSendRequest, but the debounce slot is the controller's: the
\* live task of every other zone is cancelled too
BufferedSendRequestShared(z, c, s, url, ts, fs, h) ==
    /\ hist' = [hist EXCEPT ![z] = HistAbort(h, wire[z], ts, s)]
    /\ task' = [x \in DOMAIN task |->
                  IF x = z THEN [CancelDebounceTask(ts, s) EXCEPT ![c] = "sleeping"]
                  ELSE CancelDebounceTask(task[x], zone[x])]
    /\ wire' = [x \in DOMAIN wire |->
                  IF x = z THEN AbortSendOf(wire[z], ts, s)
                  ELSE AbortSendOf(wire[x], task[x], zone[x])]
    /\ future' = [future EXCEPT ![z] = [CancelPendingFuture(fs, s) EXCEPT ![c] = "pending"]]
    /\ zone' = [zone EXCEPT ![z] =
                  [s EXCEPT !.pending_url = url,
                            !.pending_future = c,
                            !.debounce_task = c]]

\* _buffered_send_request up to its await, lines 645-664, called with url
\* by call c of zone z
BufferedSendRequest(z, c, s, url, ts, fs, h) ==
    /\ hist' = [hist EXCEPT ![z] = HistAbort(h, wire[z], ts, s)]
    /\ task' = [task EXCEPT ![z] = [CancelDebounceTask(ts, s) EXCEPT ![c] = "sleeping"]]
    /\ wire' = [wire EXCEPT ![z] = AbortSendOf(wire[z], ts, s)]
    /\ future' = [future EXCEPT ![z] = [CancelPendingFuture(fs, s) EXCEPT ![c] = "pending"]]
    /\ zone' = [zone EXCEPT ![z] =
                  [s EXCEPT !.pending_url = url,
                            !.pending_future = c,
                            !.debounce_task = c]]

\* as SendRequest, but without response.raise_for_status()
SendRequestNoRaise(outcome) == outcome \in {"ack", "no_ack", "http_error"}

\* _send_request, lines 560-594: what it returns for each way the request
\* can end ("closed": the session is None or closed, no request is made)
SendRequest(outcome) == outcome \in {"ack", "no_ack"}

BoolText(b) == IF b THEN "true" ELSE "false"

(***************************************************************************)
(* async_turn_on and async_turn_off.                                       *)
(***************************************************************************)
\* a coroutine: which method, where it is suspended, and its local url
Call(kind, pc, url) == [kind |-> kind, pc |-> pc, url |-> url]

\* as Optimistic, but the command recorded is the one sent
OptimisticScaled(s, r) ==
    [s EXCEPT !.state = TRUE, !.brightness = r.brightness, !.rgb = r.rgb,
              !.effect = r.effect, !.lsc = r.url]

\* as Optimistic, but the fields the properties report are left to be set
\* once the send has completed
OptimisticLate(s, r) == [s EXCEPT !.lsc = r.base]

\* lines 394-398: the optimistic update, and lines 400-406: the record of
\* the base command
Optimistic(s, r) ==
    [s EXCEPT !.state = TRUE, !.brightness = r.brightness, !.rgb = r.rgb,
              !.effect = r.effect, !.lsc = r.base]

\* lines 409-445 of async_turn_on up to its await, by call c of zone z:
\* hand the URL to the debouncer, or return if there is none
ContinueTurnOn(z, c, s, url, cs, ts, fs, h) ==
    IF url # NoUrl
    THEN /\ BufferedSendRequest(z, c, s, url, ts, fs, h)
         /\ calls' = [calls EXCEPT ![z] = [cs EXCEPT ![c] = Call("on", "awaiting", url)]]
    ELSE /\ zone' = [zone EXCEPT ![z] = [s EXCEPT !.available = TRUE]]
         /\ calls' = [calls EXCEPT ![z] = [cs EXCEPT ![c] = Call("on", "returned", NoUrl)]]
         /\ task' = [task EXCEPT ![z] = ts]
         /\ future' = [future EXCEPT ![z] = fs]
         /\ hist' = [hist EXCEPT ![z] = h]
         /\ UNCHANGED wire

\* the history after a turn-on with arguments kw that resolved r
HistTurnOn(h, kw, r) ==
    LET resolved == r.proceed /\ r.url # NoUrl
    IN  [h EXCEPT
           !.intent = IF resolved THEN r.url ELSE h.intent,
           !.dim = /\ h.dim /\ resolved /\ h.nsent = 0
                   /\ kw.brightness # NoArg /\ kw.brightness \notin h.used
                   /\ kw.rgb = NoRgb /\ kw.effect = NoneStr,
           !.used = IF kw.brightness # NoArg
                    THEN h.used \cup {kw.brightness} ELSE h.used,
           !.onoff = IF h.onoff = "none" /\ resolved THEN "on" ELSE "other"]

\* the history after a turn-off that handed url to the debouncer, or NoUrl
\* if it returned at once
HistTurnOff(h, url) ==
    [h EXCEPT
       !.intent = IF url # NoUrl THEN url ELSE h.intent,
       !.dim = FALSE,
       !.onoff = IF h.onoff = "on" /\ h.nsent = 0 THEN "onoff" ELSE "other"]

\* async_turn_on from its start to its first await
TurnOn(z, kw) ==
    /\ ncalls < MaxCalls
    /\ ncalls' = ncalls + 1
    /\ LET c == Len(calls[z]) + 1
           s == zone[z]
           r == ResolveTurnOn(z, s, kw)
           \* the coroutine comes into being, with no future or task yet
           cs == Append(calls[z], Call("on", "returned", NoUrl))
           ts == Append(task[z], "none")
           fs == Append(future[z], "none")
           h == HistTurnOn(hist[z], kw, r)
       IN  IF ~r.proceed
           \* lines 264, 330, 333: return
           THEN /\ calls' = [calls EXCEPT ![z] = cs]
                /\ task' = [task EXCEPT ![z] = ts]
                /\ future' = [future EXCEPT ![z] = fs]
                /\ hist' = [hist EXCEPT ![z] = h]
                /\ UNCHANGED <<zone, store, wire>>
           ELSE IF s.lsc # r.base
           \* lines 403, 406: await self._save_last_command_to_store()
           THEN /\ calls' = [calls EXCEPT ![z] =
                               [cs EXCEPT ![c] = Call("on", "saving", r.url)]]
                /\ task' = [task EXCEPT ![z] = ts]
                /\ future' = [future EXCEPT ![z] = fs]
                /\ zone' = [zone EXCEPT ![z] = Optimistic(s, r)]
                /\ store' = [store EXCEPT ![z] = r.base]
                /\ hist' = [hist EXCEPT ![z] = h]
                /\ UNCHANGED wire
           ELSE /\ ContinueTurnOn(z, c, Optimistic(s, r), r.url, cs, ts, fs, h)
                /\ UNCHANGED store
    /\ UNCHANGED npolls

\* store.async_save returns: async_turn_on goes on from line 409
SaveDone(z, c) ==
    /\ c \in CallsOf(z)
    /\ calls[z][c].pc = "saving"
    /\ ContinueTurnOn(z, c, zone[z], calls[z][c].url, calls[z], task[z],
                      future[z], hist[z])
    /\ UNCHANGED <<store, ncalls, npolls>>

\* async_turn_off from its start to its await, lines 448-475
TurnOff(z) ==
    /\ ncalls < MaxCalls
    /\ ncalls' = ncalls + 1
    /\ LET c == Len(calls[z]) + 1
           s == zone[z]
           cs == Append(calls[z], Call("off", "returned", NoUrl))
           ts == Append(task[z], "none")
           fs == Append(future[z], "none")
       IN  IF ~s.state
           \* lines 452-457: already off
           THEN /\ calls' = [calls EXCEPT ![z] = cs]
                /\ task' = [task EXCEPT ![z] = ts]
                /\ future' = [future EXCEPT ![z] = fs]
                /\ hist' = [hist EXCEPT ![z] = HistTurnOff(hist[z], NoUrl)]
                /\ UNCHANGED <<zone, wire>>
           ELSE /\ BufferedSendRequest(z, c, [s EXCEPT !.state = FALSE],
                                       OffCommandUrl(z), ts, fs,
                                       HistTurnOff(hist[z], OffCommandUrl(z)))
                /\ calls' = [calls EXCEPT ![z] =
                               [cs EXCEPT ![c] = Call("off", "awaiting", OffCommandUrl(z))]]
    /\ UNCHANGED <<store, npolls>>

\* as AvailableAfterSend, but a failed send leaves the flag as it is
AvailableAfterSendKept(available, fut) ==
    IF fut = "true" THEN TRUE ELSE available

\* lines 418-439 and 476-497: what the caller does with the awaited result
\* (fut is "cancelled" when the await raises CancelledError)
AvailableAfterSend(available, fut) ==
    IF fut = "true" THEN TRUE
    ELSE IF fut = "false" THEN FALSE
    ELSE available

\* ... and how the call ends: every branch, the two except clauses
\* included, falls through to the end of the method
PcAfterSend(fut) == "returned"

\* the awaiting caller is resumed with the future's result, or with
\* CancelledError
Resume(z, c) ==
    /\ c \in CallsOf(z)
    /\ calls[z][c].pc = "awaiting"
    /\ future[z][c] \in {"true", "false", "cancelled"}
    /\ zone' = [zone EXCEPT ![z].available =
                  AvailableAfterSend(zone[z].available, future[z][c])]
    /\ calls' = [calls EXCEPT ![z][c] =
                   Call(calls[z][c].kind, PcAfterSend(future[z][c]), NoUrl)]
    /\ UNCHANGED <<store, task, future, wire, hist, ncalls, npolls>>

(***************************************************************************)
(* _debounce_and_send, lines 671-704.                                      *)
(***************************************************************************)
\* a _send_request invocation of task t, which will resolve future f
Send(url, t, f) == [url |-> url, task |-> t, future |-> f]

\* the history after _send_request is invoked, and after it has ended
HistSend(h, url, t, result) ==
    [h EXCEPT !.nsent = h.nsent + 1, !.lastSent = url, !.lastTask = t,
              !.lastResult = result]
HistResult(h, t, result) ==
    IF h.lastTask = t THEN [h EXCEPT !.lastResult = result] ELSE h

\* the sleep of task t of zone z is over: lines 676-692 up to the
\* session.get
DebounceFire(z, t, closed) ==
    /\ t \in DOMAIN task[z]
    /\ task[z][t] = "sleeping"
    /\ LET s == zone[z]
           f == s.pending_future
       IN  IF s.pending_url = NoUrl \/ f = 0 \/ future[z][f] # "pending"
           \* lines 679-689: return
           THEN /\ task' = [task EXCEPT ![z][t] = "done"]
                /\ UNCHANGED <<wire, hist, future>>
           ELSE IF closed
           \* lines 566-568: _send_request returns False at once
           THEN /\ task' = [task EXCEPT ![z][t] = "done"]
                /\ hist' = [hist EXCEPT ![z] =
                              HistSend(hist[z], s.pending_url, t, "failed")]
                /\ future' = [future EXCEPT ![z][f] = BoolText(SendRequest("closed"))]
                /\ UNCHANGED wire
           ELSE /\ task' = [task EXCEPT ![z][t] = "sending"]
                /\ wire' = [wire EXCEPT ![z] = wire[z] \cup {Send(s.pending_url, t, f)}]
                /\ hist' = [hist EXCEPT ![z] =
                              HistSend(hist[z], s.pending_url, t, "inflight")]
                /\ UNCHANGED future
    /\ UNCHANGED <<zone, store, calls, ncalls, npolls>>

\* as SendComplete, but a request that failed is made again after another
\* debounce window
SendCompleteRetry(z, t, outcome) ==
    /\ t \in DOMAIN task[z]
    /\ task[z][t] = "sending"
    /\ LET r == CHOOSE r \in wire[z] : r.task = t
       IN  /\ wire' = [wire EXCEPT ![z] = wire[z] \ {r}]
           /\ hist' = [hist EXCEPT ![z] =
                         HistResult(hist[z], t,
                                    IF SendRequest(outcome) THEN "ok" ELSE "failed")]
           /\ future' = IF future[z][r.future] = "pending" /\ SendRequest(outcome)
                        THEN [future EXCEPT ![z][r.future] = "true"]
                        ELSE future
    /\ task' = [task EXCEPT ![z][t] =
                  IF SendRequest(outcome) THEN "done" ELSE "sleeping"]
    /\ UNCHANGED <<zone, store, calls, ncalls, npolls>>

\* the request of task t ends: lines 692-697
SendComplete(z, t, outcome) ==
    /\ t \in DOMAIN task[z]
    /\ task[z][t] = "sending"
    /\ LET r == CHOOSE r \in wire[z] : r.task = t
       IN  /\ wire' = [wire EXCEPT ![z] = wire[z] \ {r}]
           /\ hist' = [hist EXCEPT ![z] =
                         HistResult(hist[z], t,
                                    IF SendRequest(outcome) THEN "ok" ELSE "failed")]
           /\ future' = IF future[z][r.future] = "pending"
                        THEN [future EXCEPT ![z][r.future] = BoolText(SendRequest(outcome))]
                        ELSE future
    /\ task' = [task EXCEPT ![z][t] = "done"]
    /\ UNCHANGED <<zone, store, calls, ncalls, npolls>>

(***************************************************************************)
(* _handle_coordinator_update, lines 192-233.                              *)
(***************************************************************************)
\* as HandleCoordinatorUpdate, but a zone that becomes unavailable is taken
\* to be off
HandleCoordinatorUpdateReset(s, ok, entry) ==
    IF ~ok \/ entry \in {"absent", "nopattern"}
    THEN [s EXCEPT !.available = FALSE, !.state = FALSE]
    ELSE LET new_state == entry # "off"
             s1 == [s EXCEPT !.available = TRUE]
         IN  IF s.state # new_state
             THEN [s1 EXCEPT !.state = new_state,
                             !.effect = IF ~new_state THEN NoneStr ELSE s.effect]
             ELSE s1

\* as HandleCoordinatorUpdate, but the state is reconciled only if the zone
\* was available before the refresh
HandleCoordinatorUpdateStale(s, ok, entry) ==
    IF ~ok THEN [s EXCEPT !.available = FALSE]
    ELSE IF entry \in {"absent", "nopattern"} THEN [s EXCEPT !.available = FALSE]
    ELSE LET new_state == entry # "off"
             s1 == [s EXCEPT !.available = TRUE]
         IN  IF s.available /\ s.state # new_state
             THEN [s1 EXCEPT !.state = new_state,
                             !.effect = IF ~new_state THEN NoneStr ELSE s.effect]
             ELSE s1

HandleCoordinatorUpdate(s, ok, entry) ==
    \* lines 194-199: the refresh failed
    IF ~ok THEN [s EXCEPT !.available = FALSE]
    \* lines 207-217: no entry of this zone, or no "pattern" in it
    ELSE IF entry \in {"absent", "nopattern"} THEN [s EXCEPT !.available = FALSE]
    ELSE LET new_state == entry # "off"
             new_availability == TRUE
             state_changed == s.state # new_state
             s1 == IF s.available # new_availability
                   THEN [s EXCEPT !.available = new_availability] ELSE s
         IN  IF s1.available /\ state_changed
             THEN [s1 EXCEPT !.state = new_state,
                             !.effect = IF ~new_state THEN NoneStr ELSE s.effect]
             ELSE s1

\* a coordinator refresh ends and every zone's listener runs
Poll(data) ==
    /\ npolls < MaxPolls
    /\ npolls' = npolls + 1
    /\ zone' = [z \in DOMAIN zone |->
                  HandleCoordinatorUpdate(zone[z], data.ok, data.entries[z])]
    /\ UNCHANGED <<store, calls, future, task, wire, hist, ncalls>>

\* whether _handle_coordinator_update calls async_write_ha_state: lines
\* 194-199 only when the zone was available, lines 207-217 and line 233
\* always
CoordinatorUpdateWrites(s, ok, entry) == IF ~ok THEN s.available ELSE TRUE

\* whether the caller resumed with the result fut calls
\* async_write_ha_state, lines 418-439 and 476-497
SendResultWrites(available, fut) ==
    \/ fut = "true" /\ ~available
    \/ fut = "false" /\ available

\* a coordinator refresh of the controller's zones zs: as PollResults, and
\* the responses whose body is not a list (an object that wraps the zones'
\* entries, say), for which line 62 raises UpdateFailed
PollResponses(zs) ==
    PollResults(zs)
      \cup {[ok |-> FALSE, entries |-> e] : e \in [zs -> {"off", "custom"}]}

Next ==
    \/ \E z \in DOMAIN zone, kw \in TurnOnArgs : TurnOn(z, kw)
    \/ \E z \in DOMAIN zone : TurnOff(z)
    \/ \E z \in DOMAIN zone, c \in CallIds : SaveDone(z, c)
    \/ \E z \in DOMAIN zone, c \in CallIds : Resume(z, c)
    \/ \E z \in DOMAIN zone, t \in CallIds, closed \in BOOLEAN :
          DebounceFire(z, t, closed)
    \/ \E z \in DOMAIN zone, t \in CallIds, outcome \in SendOutcomes :
          SendComplete(z, t, outcome)
    \/ \E data \in PollResults(DOMAIN zone) : Poll(data)

Spec == Init /\ [][Next]_vars

\* the calls of one debounce window: commands are resolved and handed to
\* the debouncer, no timer fires and no refresh arrives
NextResolve ==
    \/ \E z \in DOMAIN zone, kw \in ResolveArgs : TurnOn(z, kw)
    \/ \E z \in DOMAIN zone : TurnOff(z)
    \/ \E z \in DOMAIN zone, c \in CallIds : SaveDone(z, c)

SpecResolve == InitResolve /\ [][NextResolve]_vars

\* the entities of both zones of one controller between two sends: calls
\* are issued and saved and refreshes arrive, no timer fires
InitZones == InitEntities(Zones)

NextZones ==
    \/ \E z \in DOMAIN zone, kw \in TurnOnArgs : TurnOn(z, kw)
    \/ \E z \in DOMAIN zone : TurnOff(z)
    \/ \E z \in DOMAIN zone, c \in CallIds : SaveDone(z, c)
    \/ \E data \in PollResponses(DOMAIN zone) : Poll(data)

SpecZones == InitZones /\ [][NextZones]_vars

\* the entities of both zones of one controller with their debouncers and
\* sends: calls are issued, timers fire and requests end, no refresh arrives
PairArgs == {Args(128, NoRgb, NoneStr), Args(NoArg, NoRgb, "Christmas: Icicle Chase")}
PairOutcomes == {"ack", "timeout"}

NextPair ==
    \/ \E z \in DOMAIN zone, kw \in PairArgs : TurnOn(z, kw)
    \/ \E z \in DOMAIN zone : TurnOff(z)
    \/ \E z \in DOMAIN zone, c \in CallIds : SaveDone(z, c)
    \/ \E z \in DOMAIN zone, c \in CallIds : Resume(z, c)
    \/ \E z \in DOMAIN zone, t \in CallIds : DebounceFire(z, t, FALSE)
    \/ \E z \in DOMAIN zone, t \in CallIds, outcome \in PairOutcomes :
          SendComplete(z, t, outcome)

SpecPair == InitZones /\ [][NextPair]_vars

\* async_will_remove_from_hass, lines 707-723: the live debounce task is
\* cancelled, its request in flight abandoned, and the pending future
\* cancelled; no service call reaches a removed entity
Remove(z) ==
    /\ ~zone[z].removed
    /\ hist' = [hist EXCEPT ![z] = HistAbort(hist[z], wire[z], task[z], zone[z])]
    /\ task' = [task EXCEPT ![z] = CancelDebounceTask(task[z], zone[z])]
    /\ wire' = [wire EXCEPT ![z] = AbortSendOf(wire[z], task[z], zone[z])]
    /\ future' = [future EXCEPT ![z] = CancelPendingFuture(future[z], zone[z])]
    /\ zone' = [zone EXCEPT ![z].removed = TRUE]
    /\ UNCHANGED <<store, calls, ncalls, npolls>>

\* one zone's entity from its construction to its removal, on an event loop
\* that runs every scheduled task and with requests that all end
LiveZone == 1
LiveArgs == {NoArgs, Args(128, NoRgb, NoneStr)}
LiveOutcomes == {"ack", "timeout"}

InitLive == InitEntities({LiveZone})

LiveSaveDone == \E c \in CallIds : SaveDone(LiveZone, c)
LiveResume == \E c \in CallIds : Resume(LiveZone, c)
LiveDebounceFire ==
    \E t \in CallIds, closed \in BOOLEAN : DebounceFire(LiveZone, t, closed)
LiveSendComplete ==
    \E t \in CallIds, outcome \in LiveOutcomes : SendComplete(LiveZone, t, outcome)

NextLive ==
    \/ \E kw \in LiveArgs : ~zone[LiveZone].removed /\ TurnOn(LiveZone, kw)
    \/ ~zone[LiveZone].removed /\ TurnOff(LiveZone)
    \/ LiveSaveDone
    \/ LiveResume
    \/ LiveDebounceFire
    \/ LiveSendComplete
    \/ Remove(LiveZone)

SpecLive ==
    /\ InitLive
    /\ [][NextLive]_vars
    /\ WF_vars(LiveSaveDone)
    /\ WF_vars(LiveResume)
    /\ WF_vars(LiveDebounceFire)
    /\ WF_vars(LiveSendComplete)

(***************************************************************************)
(* Properties.  Quiescent(z): every call of zone z has returned and none   *)
(* of its debounce tasks is still to run.                                  *)
(***************************************************************************)
Quiescent(z) ==
    /\ \A c \in CallsOf(z) : calls[z][c].pc = "returned"
    /\ \A t \in DOMAIN task[z] : ~TaskLive(task[z], t)

\* a step in which call c of zone z is resumed from its await
Resumed(z, c) ==
    /\ c \in CallsOf(z)
    /\ calls[z][c].pc = "awaiting"
    /\ calls'[z][c].pc # "awaiting"

\* C1: after one or more async_turn_on calls that differ only in their
\* brightness, each issued before anything was sent, exactly one request
\* has been sent once everything has come to rest, and its URL is the one
\* the last call built.
C1_RapidTurnOnsSendLast ==
    \A z \in DOMAIN zone :
        (hist[z].dim /\ Len(calls[z]) >= 1 /\ Quiescent(z))
            => (hist[z].nsent = 1 /\ hist[z].lastSent = hist[z].intent)

\* C2: a call whose future is pending when a later call of the zone takes
\* over the debouncer's slot has its future cancelled; a cancelled future
\* never gets a result; and the call resumed with the cancellation returns
\* and leaves the zone's fields, available included, as they are.
C2_SupersededCancelled ==
    [][\A z \in DOMAIN zone : \A c \in CallsOf(z) :
          /\ (future[z][c] = "pending"
                /\ zone'[z].pending_future # zone[z].pending_future)
               => future'[z][c] = "cancelled"
          /\ future[z][c] = "cancelled" => future'[z][c] = "cancelled"
          /\ (Resumed(z, c) /\ future[z][c] = "cancelled")
               => (zone'[z] = zone[z] /\ calls'[z][c].pc = "returned")]_vars

\* a superseded call has been resumed and has returned
C2_Witness ==
    \E z \in DOMAIN zone : \E c \in CallsOf(z) :
        /\ future[z][c] = "cancelled"
        /\ calls[z][c].pc = "returned"
        /\ zone[z].pending_future # c

\* C3: a zone never has more than one request in flight.
C3_OneInFlight ==
    \A z \in DOMAIN zone : Cardinality(wire[z]) <= 1

\* a second request of the zone is in flight after the first was abandoned
\* when its task was cancelled
C3_Witness ==
    \E z \in DOMAIN zone :
        /\ Cardinality(wire[z]) = 1
        /\ hist[z].nsent = 2
        /\ \E t \in DOMAIN task[z] : task[z][t] = "cancelled"
        /\ \A c \in CallsOf(z) : future[z][c] # "false" /\ future[z][c] # "true"

\* C4: when a turn-on that built a command is followed by a turn-off before
\* anything was sent, and no refresh comes in between, then once everything
\* has come to rest exactly one request has been sent, it is the off
\* command, and the zone's power is false.
C4_OnThenOffSendsOff ==
    \A z \in DOMAIN zone :
        (hist[z].onoff = "onoff" /\ npolls = 0 /\ Quiescent(z))
            => /\ hist[z].nsent = 1
               /\ hist[z].lastSent = OffCommandUrl(z)
               /\ ~zone[z].state

\* C5: a successful refresh whose entry of zone k has the pattern "off"
\* leaves the power of zone k false, whatever it was before.
C5_PollOffWins ==
    [][\A data \in PollResults(DOMAIN zone) : \A k \in DOMAIN zone :
          (npolls' # npolls /\ data.ok /\ data.entries[k] = "off" /\ Poll(data))
              => ~zone'[k].state]_vars

\* the zone is off though only turn-on calls were made, one of them still
\* waiting for its command to be sent
C5_Witness ==
    \E z \in DOMAIN zone :
        /\ ~zone[z].state
        /\ zone[z].available
        /\ npolls = 1
        /\ \A c \in CallsOf(z) : calls[z][c].kind = "on"
        /\ \E c \in CallsOf(z) :
              calls[z][c].pc = "awaiting" /\ future[z][c] = "pending"

\* C6: a call resumed with the result False leaves the zone unavailable;
\* a successful refresh whose entry of the zone has a pattern makes the
\* zone available, and starts no call, task or request.
C6_FailureThenPollRecovers ==
    [][/\ \A z \in DOMAIN zone : \A c \in CallsOf(z) :
             (Resumed(z, c) /\ future[z][c] = "false") => ~zone'[z].available
       /\ \A data \in PollResults(DOMAIN zone) : \A z \in DOMAIN zone :
             (/\ npolls' # npolls /\ data.ok
              /\ data.entries[z] \in {"off", "custom"} /\ Poll(data))
                 => /\ zone'[z].available
                    /\ UNCHANGED <<calls, future, task, wire, hist, ncalls>>]_vars

\* the zone's only call failed and has returned, and the zone is available
\* again
C6_Witness ==
    \E z \in DOMAIN zone :
        /\ Len(calls[z]) = 1
        /\ calls[z][1].pc = "returned"
        /\ future[z][1] = "false"
        /\ hist[z].lastResult = "failed"
        /\ zone[z].available
        /\ npolls = 1

\* C7: an unavailable zone reports None for is_on, brightness, rgb_color
\* and effect.
C7_UnavailableReportsNone ==
    \A z \in DOMAIN zone :
        ~zone[z].available
            => /\ IsOn(zone[z]) = NoneStr
               /\ Brightness(zone[z]) = NoArg
               /\ RgbColor(zone[z]) = NoRgb
               /\ Effect(zone[z]) = NoneStr

\* an unavailable zone whose stored power, brightness and effect are set
C7_Witness ==
    \E z \in DOMAIN zone :
        /\ ~zone[z].available
        /\ zone[z].state
        /\ zone[z].brightness = 128
        /\ zone[z].effect # NoneStr

C9_FailureOnlyUnavailable ==
    [][\A z \in DOMAIN zone : \A c \in CallsOf(z) :
          /\ (task[z][c] = "sending" /\ task'[z][c] = "done"
                /\ future[z][c] = "pending")
                => \A outcome \in SendOutcomes \ {"ack", "no_ack"} :
                      SendComplete(z, c, outcome) => future'[z][c] = "false"
          /\ (task[z][c] = "sleeping" /\ hist'[z].nsent # hist[z].nsent)
                => (DebounceFire(z, c, TRUE)
                      => future'[z][zone[z].pending_future] = "false")
          /\ Resumed(z, c) => calls'[z][c].pc = "returned"
          /\ (Resumed(z, c) /\ future[z][c] = "false")
                => zone'[z] = [zone[z] EXCEPT !.available = FALSE]]_vars

\* a call whose request failed has returned and the zone is unavailable
C9_Witness ==
    \E z \in DOMAIN zone : \E c \in CallsOf(z) :
        /\ calls[z][c].pc = "returned"
        /\ future[z][c] = "false"
        /\ ~zone[z].available
        /\ hist[z].lastResult = "failed"
        /\ npolls = 0

\* C10: the command an async_turn_off call hands to the debouncer has the
\* pattern type "off", the colors 0,0,0 and the calling zone's number.
C10_TurnOffCommand ==
    \A z \in DOMAIN zone : \A c \in CallsOf(z) :
        (calls[z][c].kind = "off" /\ calls[z][c].pc = "awaiting")
            => /\ calls[z][c].url.path = "/setPattern"
               /\ calls[z][c].url.patternType = "off"
               /\ calls[z][c].url.colors = <<0, 0, 0>>
               /\ calls[z][c].url.num_colors = 1
               /\ calls[z][c].url.zones = z
               /\ (zone[z].pending_future = c
                     => zone[z].pending_url = calls[z][c].url)

\* a turn-off is waiting on a zone whose brightness, effect and last
\* command were set by an earlier turn-on
C10_Witness ==
    \E z \in DOMAIN zone : \E c \in CallsOf(z) :
        /\ calls[z][c].kind = "off"
        /\ calls[z][c].pc = "awaiting"
        /\ zone[z].pending_future = c
        /\ zone[z].lsc # NoUrl
        /\ (zone[z].brightness = 128 \/ zone[z].effect # NoneStr)

(***************************************************************************)
(* Properties of the command resolution.                                   *)
(***************************************************************************)
\* v is c * b / 255 rounded to the nearest integer
IsRounded(v, c, b) == 2 * c * b - 255 <= 510 * v /\ 510 * v <= 2 * c * b + 255

\* colors is the list base with every value scaled by b / 255
IsScaled(colors, base, b) ==
    /\ Len(colors) = Len(base)
    /\ \A i \in 1..Len(base) : IsRounded(colors[i], base[i], b)

InRange(v) == v \in 0..255

\* the URL that the call issued in this step built
NewUrl(z) == calls'[z][Len(calls[z]) + 1].url

\* the brightness a call with arguments kw asks for, on a zone with fields s
AskedBrightness(s, kw) ==
    IF kw.brightness # NoArg THEN kw.brightness ELSE s.brightness

\* patterns.py line 8: the palette of "Christmas: Icicle Chase"
IcicleChaseColors == <<255, 255, 255, 0, 183, 245, 0, 73, 245>>

\* C11: the command async_turn_on builds for a color c at a brightness b,
\* all values in 0..255, is a "custom" setPattern command with one color
\* whose channel i is c[i] * b / 255 rounded to the nearest integer.
C11_RgbCommandScaled ==
    [][\A z \in DOMAIN zone : \A kw \in ResolveArgs :
          (/\ TurnOn(z, kw)
           /\ kw.rgb # NoRgb
           /\ \A i \in 1..3 : InRange(kw.rgb[i])
           /\ InRange(AskedBrightness(zone[z], kw)))
              => /\ NewUrl(z).path = "/setPattern"
                 /\ NewUrl(z).params = "all"
                 /\ NewUrl(z).patternType = "custom"
                 /\ NewUrl(z).num_colors = 1
                 /\ NewUrl(z).zones = z
                 /\ IsScaled(NewUrl(z).colors, kw.rgb, AskedBrightness(zone[z], kw))
                 /\ \A i \in 1..3 : InRange(NewUrl(z).colors[i])]_vars

\* the color (200, 100, 17) was asked for at brightness 128 and the command
\* built carries (100, 50, 9)
C11_Witness ==
    \E z \in DOMAIN zone : \E c \in CallsOf(z) :
        /\ calls[z][c].kind = "on"
        /\ calls[z][c].url.patternType = "custom"
        /\ calls[z][c].url.colors = <<100, 50, 9>>
        /\ zone[z].rgb = <<200, 100, 17>>
        /\ zone[z].brightness = 128
        /\ zone[z].pending_future = c

\* C12: on a zone in its state after construction, async_turn_on with the
\* effect "Christmas: Icicle Chase" builds a setPattern command of pattern
\* type "chase" with the catalog's nine color values, and leaves the zone
\* on, with that effect intended and the color (255, 255, 255).
C12_IcicleChaseFromDefault ==
    [][\A z \in DOMAIN zone :
          (/\ TurnOn(z, Args(NoArg, NoRgb, "Christmas: Icicle Chase"))
           /\ zone[z] = InitZone)
              => /\ NewUrl(z).path = "/setPattern"
                 /\ NewUrl(z).patternType = "chase"
                 /\ NewUrl(z).colors = IcicleChaseColors
                 /\ zone'[z].state
                 /\ zone'[z].effect = "Christmas: Icicle Chase"
                 /\ zone'[z].rgb = <<255, 255, 255>>]_vars

\* C13: on a zone with the intended effect "Christmas: Icicle Chase",
\* async_turn_on with only a brightness b builds the effect's command with
\* each of the catalog's nine color values scaled by b / 255, and leaves the
\* intended effect as it is.
C13_EffectScaledByBrightness ==
    [][\A z \in DOMAIN zone : \A kw \in TurnOnArgs :
          (/\ TurnOn(z, kw)
           /\ kw.brightness # NoArg /\ kw.rgb = NoRgb /\ kw.effect = NoneStr
           /\ zone[z].effect = "Christmas: Icicle Chase"
           /\ (zone[z].available \/ zone[z].state))
              => /\ IsScaled(NewUrl(z).colors, IcicleChaseColors, kw.brightness)
                 /\ zone'[z].effect = zone[z].effect]_vars

\* C14: async_turn_on with both a color and an effect of the catalog
\* builds the effect's command and sets the intended effect to it.
C14_EffectBeforeRgb ==
    [][\A z \in DOMAIN zone : \A kw \in ResolveArgs :
          (TurnOn(z, kw) /\ kw.rgb # NoRgb /\ kw.effect \in EffectNames)
              => /\ zone'[z].effect = kw.effect
                 /\ NewUrl(z).patternType # "custom"]_vars

\* C15: async_turn_on with a color and no effect leaves the zone with no
\* intended effect and with the asked color stored, each channel clamped to
\* 0..255 and not scaled; the command built is a "custom" command with one
\* color, the stored color at the asked brightness.
C15_RgbClearsEffect ==
    [][\A z \in DOMAIN zone : \A kw \in ResolveArgs :
          (TurnOn(z, kw) /\ kw.rgb # NoRgb /\ kw.effect = NoneStr)
              => /\ zone'[z].effect = NoneStr
                 /\ \A i \in 1..3 :
                       /\ InRange(zone'[z].rgb[i])
                       /\ InRange(kw.rgb[i]) => zone'[z].rgb[i] = kw.rgb[i]
                       /\ kw.rgb[i] < 0 => zone'[z].rgb[i] = 0
                       /\ kw.rgb[i] > 255 => zone'[z].rgb[i] = 255
                 /\ NewUrl(z).path = "/setPattern"
                 /\ NewUrl(z).params = "all"
                 /\ NewUrl(z).patternType = "custom"
                 /\ NewUrl(z).num_colors = 1
                 /\ IsScaled(NewUrl(z).colors, zone'[z].rgb, zone'[z].brightness)]_vars

\* an effect's command was built, and then a color command for
\* (300, -5, 17), which is stored as (255, 0, 17) with no intended effect
C15_Witness ==
    \E z \in DOMAIN zone :
        /\ Len(calls[z]) = 2
        /\ calls[z][1].url.params = "zones"
        /\ calls[z][2].url.patternType = "custom"
        /\ zone[z].effect = NoneStr
        /\ zone[z].rgb = <<255, 0, 17>>

\* C16: async_turn_on with neither a color nor an effect, on a zone that is
\* off or with a brightness b, builds the intended effect's command with
\* its colors scaled by b / 255 if an effect is intended; else the last
\* command recorded with its colors scaled by b / 255 if there is one; else
\* a "custom" command for (255, 255, 255) scaled by b / 255.
C16_ReplayChain ==
    [][\A z \in DOMAIN zone : \A kw \in ResolveArgs :
          (/\ TurnOn(z, kw)
           /\ kw.rgb = NoRgb /\ kw.effect = NoneStr
           /\ (~zone[z].state \/ kw.brightness # NoArg))
              => LET b == Clamp(AskedBrightness(zone[z], kw))
                 IN  IF zone[z].effect = "Christmas: Icicle Chase"
                     THEN /\ NewUrl(z).patternType = "chase"
                          /\ IsScaled(NewUrl(z).colors, IcicleChaseColors, b)
                     ELSE IF zone[z].lsc # NoUrl
                     THEN /\ IsScaled(NewUrl(z).colors, zone[z].lsc.colors, b)
                          /\ [NewUrl(z) EXCEPT !.colors = zone[z].lsc.colors]
                                = zone[z].lsc
                     ELSE /\ NewUrl(z).patternType = "custom"
                          /\ NewUrl(z).num_colors = 1
                          /\ IsScaled(NewUrl(z).colors, <<255, 255, 255>>, b)]_vars

\* C17: a successful refresh whose entry of the zone has the pattern
\* "custom" and a well-formed colors field leaves the first triplet of that
\* field as the zone's stored color.
C17_PollColorStored ==
    [][\A data \in PollResults(DOMAIN zone) : \A z \in DOMAIN zone :
          (Poll(data) /\ data.ok /\ data.entries[z] = "custom")
              => zone'[z].rgb = SubSeq(CustomEntryColors, 1, 3)]_vars

\* C18 as stated: every async_turn_on call with a brightness b leaves
\* Clamp(b) as the stored brightness, and no other step changes it.
C18_BrightnessAlwaysStored ==
    [][\A z \in DOMAIN zone :
          /\ \A kw \in TurnOnArgs :
                (TurnOn(z, kw) /\ kw.brightness # NoArg)
                    => zone'[z].brightness = Clamp(kw.brightness)
          /\ (\A kw \in TurnOnArgs : kw.brightness # NoArg => ~TurnOn(z, kw))
                => zone'[z].brightness = zone[z].brightness]_vars

\* C18: an async_turn_on call with a brightness b that is not refused (the
\* zone is available or on, and an effect asked for without a color is in
\* the catalog) leaves Clamp(b) as the stored brightness; no other step
\* changes the stored brightness (a step that issues no call, be it a send
\* that succeeds or fails or a call resumed after it was superseded, leaves
\* it as it is).
C18_BrightnessStoredUnlessRefused ==
    [][\A z \in DOMAIN zone :
          IF ncalls' = ncalls
          THEN zone'[z].brightness = zone[z].brightness
          ELSE /\ \A kw \in TurnOnArgs :
                     (/\ kw.brightness # NoArg
                      /\ (zone[z].available \/ zone[z].state)
                      /\ (kw.rgb # NoRgb \/ kw.effect = NoneStr
                            \/ kw.effect \in EffectNames)
                      /\ TurnOn(z, kw))
                         => zone'[z].brightness = Clamp(kw.brightness)
               /\ (\A kw \in TurnOnArgs : kw.brightness # NoArg => ~TurnOn(z, kw))
                     => zone'[z].brightness = zone[z].brightness]_vars

\* the brightness 128 is stored though the send of the call that asked for
\* it has failed and the call has returned
C18_Witness ==
    \E z \in DOMAIN zone :
        /\ Len(calls[z]) = 1
        /\ calls[z][1].pc = "returned"
        /\ future[z][1] = "false"
        /\ ~zone[z].available
        /\ zone[z].brightness = 128

\* C19: async_turn_on with brightness 0 builds a setPattern command whose
\* color values are all 0 and whose pattern type is not "off", and leaves
\* the zone on.
C19_BrightnessZero ==
    [][\A z \in DOMAIN zone : \A kw \in ResolveArgs :
          (/\ TurnOn(z, kw)
           /\ kw.brightness = 0
           /\ (kw.effect = NoneStr \/ kw.effect \in EffectNames))
              => /\ NewUrl(z).params = "all"
                 /\ NewUrl(z).patternType # "off"
                 /\ Len(NewUrl(z).colors) >= 3
                 /\ \A i \in 1..Len(NewUrl(z).colors) : NewUrl(z).colors[i] = 0
                 /\ zone'[z].state]_vars

C21_LscOnlyOnSuccess ==
    [][\A z \in DOMAIN zone :
          zone'[z].lsc # zone[z].lsc
              => \E c \in CallsOf(z) :
                     \/ Resumed(z, c) /\ future[z][c] = "true"
                     \/ future[z][c] = "pending" /\ future'[z][c] = "true"]_vars

\* C22 as stated: from the moment an async_turn_on call has handed its
\* command to the debouncer until its send completes, the zone is on.
C22_ReflectsUntilSent ==
    \A z \in DOMAIN zone : \A c \in CallsOf(z) :
        (/\ calls[z][c].kind = "on"
         /\ calls[z][c].pc = "awaiting"
         /\ future[z][c] = "pending")
            => zone[z].state

\* C22: the step in which an async_turn_on call that is not refused is
\* issued sets power to true, the brightness to the clamped brightness asked
\* for and the intended effect to the effect asked for, and the command is
\* handed to the debouncer in that step or in a later one, never before;
\* from then on the four fields change only in a step that issues a call or
\* delivers a coordinator refresh: the save, the timer, the send and the
\* caller's resumption leave them as they are.
C22_SetBeforeHandover ==
    [][\A z \in DOMAIN zone :
          IF ncalls' = ncalls
          THEN npolls' = npolls
                  => /\ zone'[z].state = zone[z].state
                     /\ zone'[z].brightness = zone[z].brightness
                     /\ zone'[z].rgb = zone[z].rgb
                     /\ zone'[z].effect = zone[z].effect
          ELSE \A kw \in TurnOnArgs :
                  (/\ zone[z].available \/ zone[z].state
                   /\ (kw.effect = NoneStr \/ kw.effect \in EffectNames)
                   /\ TurnOn(z, kw))
                      => /\ zone'[z].state
                         /\ zone'[z].brightness = Clamp(AskedBrightness(zone[z], kw))
                         /\ kw.effect # NoneStr => zone'[z].effect = kw.effect
                         /\ calls'[z][Len(calls[z]) + 1].pc \in {"saving", "awaiting", "returned"}
                         /\ zone'[z].pending_future = Len(calls[z]) + 1
                               => calls'[z][Len(calls[z]) + 1].pc = "awaiting"]_vars

\* a call that asked for the effect waits for its send, which is in flight,
\* and the zone is on at brightness 255 with that effect
C22_Witness ==
    \E z \in DOMAIN zone : \E c \in CallsOf(z) :
        /\ calls[z][c].kind = "on"
        /\ calls[z][c].pc = "awaiting"
        /\ task[z][c] = "sending"
        /\ zone[z].state
        /\ zone[z].brightness = 255
        /\ zone[z].effect = "Christmas: Icicle Chase"

\* C23: the failing end of a request leaves the zone's fields as they are,
\* and the async_turn_on call resumed with that failure changes nothing but
\* the availability, which is false afterwards: power stays true, and
\* brightness, color and effect stay as the call set them (after a single
\* call that built a color command, the command's colors are the stored
\* color scaled by the stored brightness).
C23_NoRollback ==
    [][\A z \in DOMAIN zone : \A c \in CallIds :
          /\ (/\ Resumed(z, c)
              /\ calls[z][c].kind = "on"
              /\ future[z][c] = "false")
                 => zone'[z] = [zone[z] EXCEPT !.available = FALSE]
          /\ (/\ c \in CallsOf(z)
              /\ future[z][c] = "pending"
              /\ future'[z][c] = "false")
                 => zone'[z] = zone[z]
          /\ (/\ Resumed(z, c)
              /\ calls[z][c].kind = "on"
              /\ future[z][c] = "false"
              /\ ncalls = 1 /\ npolls = 0)
                 => /\ zone'[z].state
                    /\ hist[z].intent.patternType = "custom"
                          => IsScaled(hist[z].intent.colors, zone'[z].rgb,
                                      zone'[z].brightness)]_vars

\* the send of a call that asked for the effect has failed and the call has
\* returned: the zone is unavailable, on, with that effect
C23_Witness ==
    \E z \in DOMAIN zone :
        /\ Len(calls[z]) = 1
        /\ calls[z][1].pc = "returned"
        /\ future[z][1] = "false"
        /\ ~zone[z].available
        /\ zone[z].state
        /\ zone[z].effect = "Christmas: Icicle Chase"

\* C24 as stated: every async_turn_off call hands the off command to the
\* debouncer, whatever the zone's power and availability.
C24_TurnOffAlwaysHandsOff ==
    [][\A z \in DOMAIN zone :
          TurnOff(z)
              => /\ zone'[z].pending_future = Len(calls[z]) + 1
                 /\ zone'[z].pending_url.patternType = "off"]_vars

\* C24: an async_turn_off call on a zone whose power is true, whatever its
\* availability, sets power to false and hands the off command to the
\* debouncer, and when that call's timer fires with the call not superseded
\* the command given to _send_request is the off command; a call on a zone
\* whose power is false returns at once and hands nothing over.
C24_TurnOffWhenOnHandsOff ==
    [][\A z \in DOMAIN zone :
          /\ (zone[z].state /\ TurnOff(z))
                => LET c == Len(calls[z]) + 1
                   IN  /\ ~zone'[z].state
                       /\ zone'[z].pending_future = c
                       /\ zone'[z].pending_url.params = "all"
                       /\ zone'[z].pending_url.patternType = "off"
                       /\ zone'[z].pending_url.zones = z
                       /\ future'[z][c] = "pending"
                       /\ task'[z][c] = "sleeping"
                       /\ calls'[z][c].pc = "awaiting"
          /\ (~zone[z].state /\ TurnOff(z))
                => /\ zone'[z] = zone[z]
                   /\ task'[z][Len(calls[z]) + 1] = "none"
                   /\ calls'[z][Len(calls[z]) + 1].pc = "returned"
          /\ \A t \in CallsOf(z) :
                (/\ calls[z][t].kind = "off"
                 /\ future[z][t] = "pending"
                 /\ task[z][t] = "sleeping"
                 /\ task'[z][t] \in {"sending", "done"})
                    => /\ hist'[z].nsent = hist[z].nsent + 1
                       /\ hist'[z].lastSent.patternType = "off"]_vars

\* the off command of a zone that was on and unavailable is in flight
C24_Witness ==
    \E z \in DOMAIN zone : \E r \in wire[z] :
        /\ r.url.patternType = "off"
        /\ calls[z][r.task].kind = "off"
        /\ ~zone[z].available
        /\ ~zone[z].state

\* C25: async_turn_off leaves the recorded base command and the store as
\* they are, and an async_turn_on call with no arguments that follows a
\* turn-off on an available zone builds the command that was in effect
\* before it: with no effect intended, a "custom" command whose colors are
\* the stored color scaled by the stored brightness; with an effect
\* intended, a command that keeps that effect.
C25_TurnOffThenBareTurnOn ==
    [][\A z \in DOMAIN zone :
          /\ TurnOff(z) => (zone'[z].lsc = zone[z].lsc /\ store' = store)
          /\ (/\ ~zone[z].state
              /\ zone[z].available
              /\ Len(calls[z]) >= 1
              /\ calls[z][Len(calls[z])].kind = "off"
              /\ TurnOn(z, NoArgs))
                 => /\ NewUrl(z) # NoUrl
                    /\ zone'[z].brightness = zone[z].brightness
                    /\ zone'[z].effect = zone[z].effect
                    /\ zone[z].effect = NoneStr
                          => /\ NewUrl(z).patternType = "custom"
                             /\ IsScaled(NewUrl(z).colors, zone[z].rgb,
                                         zone[z].brightness)]_vars

\* C26: a request that is in flight stays in flight until it completes: it
\* leaves the wire only in the step in which its task ends, never because a
\* new command was handed to the debouncer.
C26_InFlightRunsToCompletion ==
    [][\A z \in DOMAIN zone : \A r \in wire[z] :
          r \notin wire'[z] => task'[z][r.task] = "done"]_vars

\* C27 as stated: when a debounce timer fires and the buffered command has
\* not been superseded, exactly one HTTP request is issued for it.
C27_ExactlyOneRequest ==
    [][\A z \in DOMAIN zone : \A t \in CallIds :
          (/\ t \in DOMAIN task[z]
           /\ task[z][t] = "sleeping"
           /\ task'[z][t] \in {"sending", "done"}
           /\ zone[z].pending_url # NoUrl
           /\ zone[z].pending_future # 0
           /\ future[z][zone[z].pending_future] = "pending")
              => Cardinality(wire'[z]) = Cardinality(wire[z]) + 1]_vars

\* C27: when a debounce timer fires and the buffered command has not been
\* superseded, either one HTTP request is issued for exactly that command,
\* or, the session being closed, none is and the command's future is
\* resolved to false at once; a request is issued only by a timer that
\* fires, and a task whose request has ended, with success or failure, or
\* that was cancelled never runs again.
C27_SentAtMostOnce ==
    [][\A z \in DOMAIN zone : \A t \in CallIds :
          t \in DOMAIN task[z]
              => /\ (/\ task[z][t] = "sleeping"
                     /\ task'[z][t] \in {"sending", "done"}
                     /\ zone[z].pending_url # NoUrl
                     /\ zone[z].pending_future # 0
                     /\ future[z][zone[z].pending_future] = "pending")
                        => LET f == zone[z].pending_future
                               req == [url |-> zone[z].pending_url,
                                       task |-> t, future |-> f]
                           IN  \/ /\ task'[z][t] = "sending"
                                  /\ req \notin wire[z]
                                  /\ wire'[z] = wire[z] \cup {req}
                                  /\ future'[z][f] = "pending"
                               \/ /\ task'[z][t] = "done"
                                  /\ wire'[z] = wire[z]
                                  /\ future'[z][f] = "false"
                 /\ task[z][t] = "sending"
                        => /\ task'[z][t] \in {"sending", "done", "cancelled"}
                           /\ wire'[z] \subseteq wire[z]
                 /\ task[z][t] \in {"done", "cancelled"}
                        => task'[z][t] = task[z][t]
                 /\ \A r \in wire'[z] \ wire[z] : task[z][r.task] = "sleeping"]_vars

\* the one request of the zone's only call has failed and nothing is in
\* flight or waiting to be sent, while the caller has yet to be resumed
C27_Witness ==
    \E z \in DOMAIN zone :
        /\ Len(calls[z]) = 1
        /\ calls[z][1].pc = "awaiting"
        /\ task[z][1] = "done"
        /\ future[z][1] = "false"
        /\ hist[z].nsent = 1
        /\ hist[z].lastResult = "failed"
        /\ wire[z] = {}

\* C28: a coordinator refresh leaves every zone's intended effect as it is,
\* whatever it reports.
C28_PollKeepsEffect ==
    [][\A z \in DOMAIN zone :
          npolls' # npolls => zone'[z].effect = zone[z].effect]_vars

\* C29: a coordinator refresh whose handler writes the zone's state to
\* Home Assistant changes the zone's availability or power, and so does
\* the resumption of a caller that writes it after its send.
C29_PushOnlyOnChange ==
    [][\A z \in DOMAIN zone :
          /\ \A data \in PollResults(DOMAIN zone) :
                (/\ npolls' # npolls
                 /\ CoordinatorUpdateWrites(zone[z], data.ok, data.entries[z])
                 /\ Poll(data))
                    => \/ zone'[z].available # zone[z].available
                       \/ zone'[z].state # zone[z].state
          /\ \A c \in CallIds :
                (/\ Resumed(z, c)
                 /\ SendResultWrites(zone[z].available, future[z][c]))
                    => zone'[z].available # zone[z].available]_vars

\* C30: after a coordinator refresh, every zone with a valid entry in the
\* response (an entry with a pattern) is available and its power is the one
\* reported, whatever is wrong with the response as a whole or with the
\* other zone's entry.
C30_OtherZonesUsable ==
    [][\A data \in PollResponses(DOMAIN zone) : \A z \in DOMAIN zone :
          (/\ npolls' # npolls
           /\ data.entries[z] \in {"off", "custom"}
           /\ Poll(data))
              => /\ zone'[z].available
                 /\ zone'[z].state = (data.entries[z] # "off")]_vars

\* C31: whenever the intended effect of a zone is "Christmas: Icicle Chase",
\* the zone's stored color is the first color triplet of that effect's
\* catalog color list.
C31_EffectRgbIsFirstColor ==
    \A z \in DOMAIN zone :
        zone[z].effect = "Christmas: Icicle Chase"
            => zone[z].rgb = SubSeq(IcicleChaseColors, 1, 3)

\* C33: a step in which a zone becomes unavailable, be it a refresh that
\* failed, a refresh without an entry or without a pattern for the zone, or
\* the resumption of a caller whose send failed, changes nothing else of the
\* zone: power, brightness, color, intended effect and the recorded base
\* command are as before, and so is the store.
C33_UnavailableKeepsFields ==
    [][\A z \in DOMAIN zone :
          (zone[z].available /\ ~zone'[z].available)
              => /\ zone'[z] = [zone[z] EXCEPT !.available = FALSE]
                 /\ store'[z] = store[z]]_vars

\* a refresh has made the zone unavailable while it was on with the effect,
\* at brightness 255 and with a base command recorded
C33_Witness ==
    \E z \in DOMAIN zone :
        /\ npolls = 1
        /\ ~zone[z].available
        /\ zone[z].state
        /\ zone[z].brightness = 255
        /\ zone[z].effect = "Christmas: Icicle Chase"
        /\ zone[z].lsc # NoUrl
        /\ \A c \in CallsOf(z) : future[z][c] # "false"

\* C34: whenever a zone is at rest and its latest send succeeded, the
\* command sent last is the one resolved by the call issued last, and, no
\* refresh having arrived, the zone's power is the one that command asks
\* for.
C34_LastSentIsLastIssued ==
    \A z \in DOMAIN zone :
        (Quiescent(z) /\ hist[z].lastResult = "ok" /\ hist[z].intent # NoUrl)
            => /\ hist[z].lastSent = hist[z].intent
               /\ npolls = 0
                     => zone[z].state = (hist[z].lastSent.patternType # "off")

\* C35: a zone becomes available only in a step in which a caller is
\* resumed with the success of its send, or in which a refresh is
\* delivered.
C35_AvailableOnlyBySendOrPoll ==
    [][\A z \in DOMAIN zone :
          (~zone[z].available /\ zone'[z].available)
              => \/ npolls' # npolls
                 \/ \E c \in CallsOf(z) :
                        Resumed(z, c) /\ future[z][c] = "true"]_vars

\* C36: no step turns a recorded base command into none, in the entity or
\* in the store.
C36_LscNeverReset ==
    [][\A z \in DOMAIN zone :
          /\ zone[z].lsc # NoUrl => zone'[z].lsc # NoUrl
          /\ store[z] # NoUrl => store'[z] # NoUrl]_vars

\* C37: when an async_turn_on call with neither a color nor an effect
\* replays the recorded base command (no effect is intended and a command
\* is recorded), the intended effect afterwards is none or the catalog
\* effect whose command is the one replayed.
C37_ReplayKeepsEffectOfCommand ==
    [][\A z \in DOMAIN zone : \A kw \in TurnOnArgs :
          (/\ ncalls' # ncalls
           /\ kw.rgb = NoRgb /\ kw.effect = NoneStr
           /\ (~zone[z].state \/ kw.brightness # NoArg)
           /\ zone[z].effect = NoneStr
           /\ zone[z].lsc # NoUrl
           /\ TurnOn(z, kw))
              => \/ zone'[z].effect = NoneStr
                 \/ GetBaseEffectUrl(z, zone'[z].effect) = zone[z].lsc]_vars

\* C39: an async_turn_on call on a zone that is unavailable and off,
\* whatever its arguments, leaves the zone's fields and the store as they
\* are and returns at once: no future, no task and no request come into
\* being, and the tasks, futures and requests there are stay as they are.
C39_RefusedWhenUnavailableOff ==
    [][\A z \in DOMAIN zone : \A kw \in TurnOnArgs :
          (/\ ncalls' # ncalls
           /\ ~zone[z].available /\ ~zone[z].state
           /\ TurnOn(z, kw))
              => LET c == Len(calls[z]) + 1
                 IN  /\ zone'[z] = zone[z]
                     /\ store'[z] = store[z]
                     /\ wire'[z] = wire[z]
                     /\ calls'[z][c].pc = "returned"
                     /\ task'[z] = Append(task[z], "none")
                     /\ future'[z] = Append(future[z], "none")]_vars

\* two calls were refused on a zone that a refresh had made unavailable
\* while it was off: it is still off, unavailable and without a command
C39_Witness ==
    \E z \in DOMAIN zone :
        /\ npolls = 1
        /\ Len(calls[z]) = 2
        /\ \A c \in CallsOf(z) : calls[z][c].kind = "on" /\ task[z][c] = "none"
        /\ ~zone[z].available
        /\ ~zone[z].state
        /\ zone[z].pending_url = NoUrl
        /\ zone[z].lsc = NoUrl

\* C40: an async_turn_on call with an effect name that is not in the
\* catalog leaves the zone's fields and the store as they are and returns at
\* once: no future and no task come into being, and the pending command,
\* future and task of an earlier call stay as they are.
C40_UnknownEffectRejected ==
    [][\A z \in DOMAIN zone : \A kw \in ResolveArgs :
          (/\ kw.effect # NoneStr
           /\ kw.effect \notin EffectNames
           /\ TurnOn(z, kw))
              => LET c == Len(calls[z]) + 1
                 IN  /\ zone'[z] = zone[z]
                     /\ store'[z] = store[z]
                     /\ calls'[z][c].pc = "returned"
                     /\ task'[z] = Append(task[z], "none")
                     /\ future'[z] = Append(future[z], "none")]_vars

\* C32: a step of zone i (a call issued, saved or resumed, a timer that
\* fires, a request that ends) leaves every other zone j as it is: its
\* power, brightness, color, intended effect, recorded base command,
\* availability, pending command and future, its tasks and futures, its
\* requests in flight and its store.
C32_ZonesIndependent ==
    [][\A i \in DOMAIN zone : \A j \in DOMAIN zone :
          (i # j /\ (calls'[i] # calls[i] \/ task'[i] # task[i]))
              => /\ zone'[j] = zone[j]
                 /\ store'[j] = store[j]
                 /\ calls'[j] = calls[j]
                 /\ task'[j] = task[j]
                 /\ future'[j] = future[j]
                 /\ wire'[j] = wire[j]]_vars

\* a request of zone 1 and a request of zone 2 are in flight at once
C32_Witness ==
    /\ DOMAIN zone = {1, 2}
    /\ wire[1] # {}
    /\ wire[2] # {}
    /\ task[1][1] = "sending"
    /\ task[2][1] = "sending"

\* C38: a call that waits for its command's future eventually returns, and
\* a future that is pending is eventually resolved with the send's result
\* or cancelled, by a call that takes the debouncer over or by the entity's
\* removal.
C38_CallsReturn ==
    \A c \in CallIds :
        /\ (c \in CallsOf(LiveZone) /\ calls[LiveZone][c].pc = "awaiting")
              ~> (c \in CallsOf(LiveZone) /\ calls[LiveZone][c].pc = "returned")
        /\ (c \in CallsOf(LiveZone) /\ future[LiveZone][c] = "pending")
              ~> (c \in CallsOf(LiveZone)
                    /\ future[LiveZone][c] \in {"true", "false", "cancelled"})

\* a call has returned after the entity's removal cancelled its future
\* while its request was in flight
C38_Witness ==
    /\ zone[LiveZone].removed
    /\ Len(calls[LiveZone]) = 1
    /\ calls[LiveZone][1].pc = "returned"
    /\ future[LiveZone][1] = "cancelled"
    /\ task[LiveZone][1] = "cancelled"
    /\ hist[LiveZone].lastResult = "aborted"

====
